---- MODULE Spec2Model ----
(***************************************************************************)
(* State-machine model of the gesture / rep-counting logic of the webcam   *)
(* demos: the curl counter of PoseModule.PoseDetector.findAngle, the frame *)
(* loop of VirtualPainter.run_virtual_painter, and the three finger        *)
(* classifiers (main.countFingers, VirtualMouse.countFingers,              *)
(* VirtualPainter.fingersUpFromLm).                                        *)
(*                                                                         *)
(* The landmark detector is an external collaborator: what it delivers per *)
(* frame (a landmark list, a handedness label, a joint angle) is an input  *)
(* drawn from the bounded sets below.                                      *)
(***************************************************************************)
EXTENDS Integers, Sequences, FiniteSets, TLC

VARIABLES
    \* PoseDetector (PoseModule.py)
    dir,            \* self.dir: 0 = Down, 1 = Up
    curl_count,     \* self.curl_count, in units of 0.5 (1 here = 0.5 there)
    repLog,         \* history: one entry per trainer frame
    \* run_virtual_painter (VirtualPainter.py)
    xp, yp,         \* last drawing position, (0,0) = unset
    current_color,  \* active palette colour
    imgCanvas,      \* the canvas, as the log of cv2.line calls made on it
    w,              \* frame width (img.shape[1])
    fingers,        \* finger vector of the last frame with a hand
    hist,           \* history: one entry per painter frame
    \* finger classifiers, applied to one landmark list
    lmIn,           \* lmList handed to the classifiers
    handIn,         \* handedness label delivered with it
    clsOut,         \* what each classifier returned
    \* launcher (main.py) and the demos' key handling
    where,          \* the loop in control: menu, a demo, or none any more
    res,            \* what the last demo returned to the launcher
    launchLog       \* history: one entry per frame of the loop in control

vars == <<dir, curl_count, repLog, xp, yp, current_color, imgCanvas, w,
          fingers, hist, lmIn, handIn, clsOut, where, res, launchLog>>

repVars   == <<dir, curl_count, repLog>>
paintVars == <<xp, yp, current_color, imgCanvas, w, fingers, hist>>
clsVars   == <<lmIn, handIn, clsOut>>
launchVars == <<where, res, launchLog>>

Last(s) == s[Len(s)]

(***************************************************************************)
(* Bounds of the model.                                                    *)
(***************************************************************************)
MaxRepFrames == 5
MaxFrames    == 3
MaxSelFrames == 2
MaxModeFrames == 2
MaxLaunchFrames == 4

(***************************************************************************)
(* AngleRepCounter: PoseDetector.findAngle / run_trainer.                  *)
(***************************************************************************)

\* The values math.degrees(atan2(..) - atan2(..)) takes on a frame, in whole
\* degrees: a difference of two atan2 results lies in (-360, 360].
RawAngles == {-190, 20, 30, 90, 170, 200}

\* if angle < 0: angle += 360 ; if angle > 180: angle = 360 - angle
NormalizeAngle(raw) ==
    LET a1 == IF raw < 0 THEN raw + 360 ELSE raw
    IN  IF a1 > 180 THEN 360 - a1 ELSE a1

\* A plausible slip: the increment is not guarded by the direction flag.
RepUpdateNoDirGuard(d, c, angle) ==
    LET d1  == IF angle > 160 THEN 0 ELSE d
        inc == angle < 30
    IN  [dir   |-> IF inc THEN 1 ELSE d1,
         count |-> IF inc THEN c + 1 ELSE c,
         stage |-> IF inc THEN "Up" ELSE IF angle > 160 THEN "Down" ELSE "Middle"]

\* A plausible slip: the flag re-arms on a half-extended arm already.
RepUpdateEarlyRearm(d, c, angle) ==
    LET d1  == IF angle > 80 THEN 0 ELSE d
        inc == angle < 30 /\ d1 = 0
    IN  [dir   |-> IF inc THEN 1 ELSE d1,
         count |-> IF inc THEN c + 1 ELSE c,
         stage |-> IF inc THEN "Up" ELSE IF angle > 80 THEN "Down" ELSE "Middle"]

\* The counting logic: two successive ifs on the normalized angle.
RepUpdate(d, c, angle) ==
    LET d1  == IF angle > 160 THEN 0 ELSE d
        inc == angle < 30 /\ d1 = 0
    IN  [dir   |-> IF inc THEN 1 ELSE d1,
         count |-> IF inc THEN c + 1 ELSE c,
         stage |-> IF inc THEN "Up" ELSE IF angle > 160 THEN "Down" ELSE "Middle"]

\* A plausible slip: a frame without a pose re-arms the direction flag.
NoPoseUpdateRearm(d, c) == [dir |-> 0, count |-> c]

\* A frame without a pose: findAngle's body is skipped, nothing is assigned.
NoPoseUpdate(d, c) == [dir |-> d, count |-> c]

RepEntry(kind, raw, d, c, stage) ==
    [kind |-> kind, raw |-> raw, dir |-> d, count |-> c, stage |-> stage]

RepInit ==
    /\ dir = 0
    /\ curl_count = 0
    /\ repLog = <<>>

\* run_trainer frame with a detected pose: findAngle(img, 12, 14, 16).
FindAngle ==
    /\ Len(repLog) < MaxRepFrames
    /\ \E raw \in RawAngles :
         LET r == RepUpdate(dir, curl_count, NormalizeAngle(raw))
         IN  /\ dir' = r.dir
             /\ curl_count' = r.count
             /\ repLog' = Append(repLog, RepEntry("pose", raw, r.dir, r.count, r.stage))
    /\ UNCHANGED <<paintVars, clsVars, launchVars>>

\* findAngle called while the detector holds no pose: len(lmList) == 0.
FindAngleEmpty ==
    /\ Len(repLog) < MaxRepFrames
    /\ LET r == NoPoseUpdate(dir, curl_count)
       IN  /\ dir' = r.dir
           /\ curl_count' = r.count
           /\ repLog' = Append(repLog, RepEntry("empty", 0, r.dir, r.count, "none"))
    /\ UNCHANGED <<paintVars, clsVars, launchVars>>

\* run_trainer frame without a pose: the loop does not call findAngle.
TrainerSkip ==
    /\ Len(repLog) < MaxRepFrames
    /\ LET r == NoPoseUpdate(dir, curl_count)
       IN  /\ dir' = r.dir
           /\ curl_count' = r.count
           /\ repLog' = Append(repLog, RepEntry("skip", 0, r.dir, r.count, "none"))
    /\ UNCHANGED <<paintVars, clsVars, launchVars>>

(***************************************************************************)
(* Finger classification shared by the painter and the classifier runs.    *)
(***************************************************************************)

Bit(b) == IF b THEN 1 ELSE 0

\* lmList is the list findPosition returns: entries [id, x, y].
LmIds(lmList) == {lmList[i][1] : i \in DOMAIN lmList}

\* {id: (x, y) for id, x, y in lmList}: the list is walked front to back and
\* a later entry overwrites an earlier one with the same id.
RECURSIVE LmDictOf(_, _)
LmDictOf(lmList, n) ==
    IF n = 0 THEN <<>>
    ELSE (lmList[n][1] :> <<lmList[n][2], lmList[n][3]>>) @@ LmDictOf(lmList, n - 1)

LmDict(lmList) == LmDictOf(lmList, Len(lmList))

\* results.multi_handedness[handNo].classification[0].label, None on failure.
HandTypes == {"Right", "Left", "Unknown"}

\* A plausible slip: the boundary tip.y == pip.y counted as "up".
FingersUpFromLmTie(lmList, handType) ==
    IF lmList = <<>> THEN <<0, 0, 0, 0, 0>>
    ELSE
    LET lm_dict == LmDict(lmList)
        has(id) == id \in DOMAIN lm_dict
        thumb   == IF has(4) /\ has(3)
                   THEN IF handType = "Right"
                        THEN Bit(lm_dict[4][1] < lm_dict[3][1])
                        ELSE Bit(lm_dict[4][1] > lm_dict[3][1])
                   ELSE 0
        up(tipId) == IF has(tipId) /\ has(tipId - 2)
                     THEN Bit(lm_dict[tipId][2] <= lm_dict[tipId - 2][2])
                     ELSE 0
    IN  <<thumb, up(8), up(12), up(16), up(20)>>

\* VirtualPainter.fingersUpFromLm
FingersUpFromLm(lmList, handType) ==
    IF lmList = <<>> THEN <<0, 0, 0, 0, 0>>
    ELSE
    LET lm_dict == LmDict(lmList)
        has(id) == id \in DOMAIN lm_dict
        thumb   == IF has(4) /\ has(3)
                   THEN IF handType = "Right"
                        THEN Bit(lm_dict[4][1] < lm_dict[3][1])
                        ELSE Bit(lm_dict[4][1] > lm_dict[3][1])
                   ELSE 0
        up(tipId) == IF has(tipId) /\ has(tipId - 2)
                     THEN Bit(lm_dict[tipId][2] < lm_dict[tipId - 2][2])
                     ELSE 0
    IN  <<thumb, up(8), up(12), up(16), up(20)>>

(***************************************************************************)
(* Landmark lists the detector can deliver.  HandDetector.findPosition     *)
(* returns either [] or all 21 landmarks of hand 0, in id order.           *)
(***************************************************************************)

\* One geometry per finger: off[k] = 1 places the reference joint so that the
\* finger reads "up" (thumb: for a right hand), -1 "down", 0 on the boundary.
HandPoint(id, c, off) ==
    IF id \in {8, 12, 16, 20}
    THEN <<c[1] + 10 * (id - 8), c[2]>>
    ELSE IF id \in {6, 10, 14, 18}
    THEN <<c[1] + 10 * (id - 6), c[2] + off[(id + 2) \div 4]>>
    ELSE IF id = 4 THEN <<c[1] - 40, c[2] + 60>>
    ELSE IF id = 3 THEN <<c[1] - 40 + off[1], c[2] + 60>>
    ELSE <<c[1], c[2] + 100>>

\* The complete 21-entry list whose index tip (id 8) is at c.
HandOf(c, off) ==
    [i \in 1..21 |-> <<i - 1, HandPoint(i - 1, c, off)[1], HandPoint(i - 1, c, off)[2]>>]

FingerIx == 1..5
ClearOffsets == [FingerIx -> {-1, 1}]
AllOffsets   == [FingerIx -> {-1, 0, 1}]

(***************************************************************************)
(* PaintStroke accumulator and mode resolution: run_virtual_painter.       *)
(***************************************************************************)

header_height    == 125
brush_thickness  == 15
eraser_thickness == 50
RequestedWidth   == 1280

\* magenta, blue, green, eraser (black)
colors == << <<255, 0, 255>>, <<255, 0, 0>>, <<0, 255, 0>>, <<0, 0, 0>> >>
num_buttons == Len(colors)

\* A plausible slip: "draw" read as "only the index finger up".
ResolveModeOnlyIndex(f) ==
    IF f[2] = 1 /\ f[3] = 1 THEN "Navigate"
    ELSE IF f[2] = 1 /\ f[3] = 0 /\ f[4] = 0 /\ f[5] = 0 THEN "Draw"
    ELSE "Idle"

\* The if / elif / else on fingers[1] and fingers[2].
ResolveMode(f) ==
    IF f[2] = 1 /\ f[3] = 1 THEN "Navigate"
    ELSE IF f[2] = 1 /\ f[3] = 0 THEN "Draw"
    ELSE "Idle"

\* A plausible variant: the button index clamped into range instead of tested.
SelectToolClamped(color, ix, iy, width) ==
    LET btn_width == width \div num_buttons
        btn_idx   == ix \div btn_width
        clamped   == IF btn_idx < 0 THEN 0
                     ELSE IF btn_idx >= num_buttons THEN num_buttons - 1
                     ELSE btn_idx
    IN  IF iy < header_height THEN colors[clamped + 1] ELSE color

\* Header hit test in selection mode; the result is the new current_color.
SelectTool(color, ix, iy, width) ==
    LET btn_width == width \div num_buttons
        btn_idx   == ix \div btn_width
    IN  IF iy < header_height /\ 0 <= btn_idx /\ btn_idx < num_buttons
        THEN colors[btn_idx + 1]
        ELSE color

\* A plausible slip: no test for the unset cursor, the line starts at (xp, yp).
DrawStartNoSentinel(x, y, ix, iy) == <<x, y>>

\* if xp == 0 and yp == 0: xp, yp = ix, iy   -- the start point of the line
DrawStart(x, y, ix, iy) == IF x = 0 /\ y = 0 THEN <<ix, iy>> ELSE <<x, y>>

\* A plausible slip: the cursor is kept when the pen is lifted.
LiftCursorKeep(x, y) == <<x, y>>

\* xp, yp = 0, 0 in the selection branch and in the else branch
LiftCursor(x, y) == <<0, 0>>

\* A frame with an empty lmList skips the whole "if lmList:" block.
NoHandCursor(x, y) == <<x, y>>

Thickness(color) ==
    IF color = <<0, 0, 0>> THEN eraser_thickness ELSE brush_thickness

LineCall(from, to, color) ==
    [from |-> from, to |-> to, color |-> color, thickness |-> Thickness(color)]

\* One history entry: the branch the frame took, the index-tip position, and
\* the painter's state after the frame.
PaintEntry(kind, at, xy, canvas, color) ==
    [kind |-> kind, at |-> at, xy |-> xy, canvas |-> canvas, color |-> color]

PaintInit(widths) ==
    /\ xp = 0
    /\ yp = 0
    /\ current_color = colors[1]
    /\ imgCanvas = <<>>
    /\ w \in widths
    /\ fingers = <<0, 0, 0, 0, 0>>
    /\ hist = <<>>

\* One pass of the while loop with a detected hand.
HandFrame(points, offsets, limit) ==
    /\ Len(hist) < limit
    /\ \E c \in points, off \in offsets, handType \in HandTypes :
         \E lmList \in {HandOf(c, off)} :
         \E f \in {FingersUpFromLm(lmList, handType)} :
         LET ix     == lmList[9][2]
             iy     == lmList[9][3]
             mode   == ResolveMode(f)
         IN  /\ lmList # <<>>
             /\ fingers' = f
             /\ IF mode = "Navigate"
                THEN LET xy  == LiftCursor(xp, yp)
                         col == SelectTool(current_color, ix, iy, w)
                     IN  /\ xp' = xy[1]
                         /\ yp' = xy[2]
                         /\ current_color' = col
                         /\ imgCanvas' = imgCanvas
                         /\ hist' = Append(hist, PaintEntry(mode, <<ix, iy>>, xy,
                                                            imgCanvas, col))
                ELSE IF mode = "Draw"
                THEN LET start  == DrawStart(xp, yp, ix, iy)
                         canvas == Append(imgCanvas,
                                          LineCall(start, <<ix, iy>>, current_color))
                     IN  /\ imgCanvas' = canvas
                         /\ xp' = ix
                         /\ yp' = iy
                         /\ current_color' = current_color
                         /\ hist' = Append(hist, PaintEntry(mode, <<ix, iy>>, <<ix, iy>>,
                                                            canvas, current_color))
                ELSE LET xy == LiftCursor(xp, yp)
                     IN  /\ xp' = xy[1]
                         /\ yp' = xy[2]
                         /\ current_color' = current_color
                         /\ imgCanvas' = imgCanvas
                         /\ hist' = Append(hist, PaintEntry(mode, <<ix, iy>>, xy,
                                                            imgCanvas, current_color))
    /\ UNCHANGED <<w, repVars, clsVars, launchVars>>

\* One pass of the while loop in which findPosition returns an empty list.
NoHandFrame(limit) ==
    /\ Len(hist) < limit
    /\ LET xy == NoHandCursor(xp, yp)
       IN  /\ xp' = xy[1]
           /\ yp' = xy[2]
           /\ hist' = Append(hist, PaintEntry("NoHand", <<0, 0>>, xy,
                                              imgCanvas, current_color))
    /\ UNCHANGED <<current_color, imgCanvas, w, fingers, repVars, clsVars, launchVars>>

\* Index-tip positions of the stroke specification; (0,0) is the sentinel itself.
PaintPts == {<<0, 0>>, <<10, 200>>, <<20, 300>>, <<1000, 50>>}

\* Index-tip positions of the tool-selection specification: left of the frame,
\* one per button, right of the last button; inside and below the header.
SelXs  == {-5, 100, 400, 700, 1000, 1281}
SelYs  == {124, 125}
SelPts == {<<x, y>> : x \in SelXs, y \in SelYs}
Widths == {1280, 1283}

\* One clear geometry per mode, for the tool-selection specification.
SelOffsets ==
    {[k \in FingerIx |-> IF k \in {2, 3} THEN 1 ELSE -1],
     [k \in FingerIx |-> IF k = 2 THEN 1 ELSE -1],
     [k \in FingerIx |-> -1]}

\* Every finger vector, at one point in the header and one below it.
ModePts == {<<10, 200>>, <<1000, 50>>}

PaintHandFrame == HandFrame(PaintPts, SelOffsets, MaxFrames)
PaintNoHandFrame == NoHandFrame(MaxFrames)
ModeHandFrame == HandFrame(ModePts, ClearOffsets, MaxModeFrames)
ModeNoHandFrame == NoHandFrame(MaxModeFrames)
SelHandFrame == HandFrame(SelPts, SelOffsets, MaxSelFrames)
SelNoHandFrame == NoHandFrame(MaxSelFrames)

(***************************************************************************)
(* The finger classifiers as functions of one landmark list.               *)
(***************************************************************************)

RECURSIVE SumSeq(_)
SumSeq(s) == IF s = <<>> THEN 0 ELSE s[1] + SumSeq(Tail(s))

Returned(total, f) == [ran |-> TRUE, raised |-> FALSE, total |-> total, fingers |-> f]
\* An uncaught KeyError from a dict lookup.
Raised == [ran |-> TRUE, raised |-> TRUE, total |-> 0, fingers |-> <<>>]
NotRun == [ran |-> FALSE, raised |-> FALSE, total |-> 0, fingers |-> <<>>]
\* fingersUpFromLm returns the vector alone.
ReturnedList(f) == [ran |-> TRUE, raised |-> FALSE, fingers |-> f]
NotRunList == [ran |-> FALSE, raised |-> FALSE, fingers |-> <<>>]

\* main.countFingers: lm[4], lm[3], lm[tipId], lm[tipId - 2] are looked up
\* without a membership test.
CountFingersMain(lmList, handType) ==
    IF lmList = <<>> THEN Returned(0, <<>>)
    ELSE
    LET lm     == LmDict(lmList)
        has(id) == id \in DOMAIN lm
        needed == {3, 4, 6, 8, 10, 12, 14, 16, 18, 20}
        up(tipId) == Bit(lm[tipId][2] < lm[tipId - 2][2])
    IN  IF \E id \in needed : ~has(id) THEN Raised
        ELSE LET thumb == IF handType = "Right"
                          THEN Bit(lm[4][1] < lm[3][1])
                          ELSE Bit(lm[4][1] > lm[3][1])
                 f == <<thumb, up(8), up(12), up(16), up(20)>>
             IN  Returned(SumSeq(f), f)

\* VirtualMouse.countFingers
CountFingersMouse(lmList, handType) ==
    IF lmList = <<>> THEN Returned(0, <<>>)
    ELSE
    LET lm     == LmDict(lmList)
        has(id) == id \in DOMAIN lm
        thumb  == IF has(4) /\ has(3)
                  THEN IF handType = "Right"
                       THEN Bit(lm[4][1] < lm[3][1])
                       ELSE Bit(lm[4][1] > lm[3][1])
                  ELSE 0
        up(tipId) == IF has(tipId) /\ has(tipId - 2)
                     THEN Bit(lm[tipId][2] < lm[tipId - 2][2])
                     ELSE 0
        f == <<thumb, up(8), up(12), up(16), up(20)>>
    IN  Returned(SumSeq(f), f)

\* The ids the classifiers read.
ReadIds == {3, 4, 6, 8, 10, 12, 14, 16, 18, 20}

\* lmList with the entries of the ids in `missing` left out.
Without(lmList, missing) ==
    LET keep(e) == e[1] \notin missing
    IN  SelectSeq(lmList, keep)

ClsCursor == <<300, 200>>

\* Complete hands in every geometry (boundaries included), and hands in the
\* all-up and the all-down geometry with any subset of the read ids missing.
ClsInputs ==
    {HandOf(ClsCursor, off) : off \in AllOffsets}
    \cup {Without(HandOf(ClsCursor, [k \in FingerIx |-> o]), missing) :
             o \in {-1, 1}, missing \in SUBSET ReadIds}

ClsIdle ==
    /\ lmIn = <<>>
    /\ handIn = "Unknown"
    /\ clsOut = [main |-> NotRun, mouse |-> NotRun, painter |-> NotRunList]

ClsInit ==
    /\ lmIn \in ClsInputs
    /\ handIn \in HandTypes
    /\ clsOut = [main |-> NotRun, mouse |-> NotRun, painter |-> NotRunList]

ClassifyMain ==
    /\ ~clsOut.main.ran
    /\ clsOut' = [clsOut EXCEPT !.main = CountFingersMain(lmIn, handIn)]
    /\ UNCHANGED <<lmIn, handIn, repVars, paintVars, launchVars>>

ClassifyMouse ==
    /\ ~clsOut.mouse.ran
    /\ clsOut' = [clsOut EXCEPT !.mouse = CountFingersMouse(lmIn, handIn)]
    /\ UNCHANGED <<lmIn, handIn, repVars, paintVars, launchVars>>

ClassifyPainter ==
    /\ ~clsOut.painter.ran
    /\ clsOut' = [clsOut EXCEPT !.painter =
                     ReturnedList(FingersUpFromLm(lmIn, handIn))]
    /\ UNCHANGED <<lmIn, handIn, repVars, paintVars, launchVars>>

(***************************************************************************)
(* The launcher and the demos' exits: main.launcher, run_virtual_mouse,    *)
(* run_virtual_painter, run_trainer.  A frame of a loop is one cap.read()  *)
(* and one cv2.waitKey(); what a demo does with the frame in between is    *)
(* the subject of the sections above.                                      *)
(***************************************************************************)

\* cv2.waitKey(1) & 0xFF: the keys the loops test, and any other ("x").
Keys == {"1", "2", "3", "q", "b", "x"}

\* What one frame of run_virtual_mouse does with a key: "continue" stays in
\* the loop, otherwise the value is the function's return value.
MouseFrameResult(readOk, key) ==
    IF ~readOk THEN "back"
    ELSE IF key = "b" THEN "back"
    ELSE IF key = "q" THEN "quit"
    ELSE "continue"

\* The same for run_virtual_painter.
PainterFrameResult(readOk, key) ==
    IF ~readOk THEN "back"
    ELSE IF key = "b" THEN "back"
    ELSE IF key = "q" THEN "quit"
    ELSE "continue"

\* The same for run_trainer: success is not tested, so cv2.resize raises on a
\* failed read; on 'q' the loop breaks, the return 'quit' after the break is
\* never executed and the function returns 'back'.
TrainerFrameResult(readOk, key) ==
    IF ~readOk THEN "raise"
    ELSE IF key = "q" THEN "back"
    ELSE "continue"

\* The launcher after a demo's frame: an exception ends the process, 'quit'
\* breaks the menu loop, anything else reopens the camera for the menu.
AfterDemo(demo, r) ==
    IF r = "continue" THEN demo
    ELSE IF r = "raise" THEN "crashed"
    ELSE IF r = "quit" THEN "exited"
    ELSE "menu"

\* The launcher's own frame: the menu is shown, then the key is tested.
AfterMenu(readOk, key) ==
    IF ~readOk THEN "exited"
    ELSE IF key = "1" THEN "mouse"
    ELSE IF key = "2" THEN "painter"
    ELSE IF key = "3" THEN "trainer"
    ELSE IF key = "q" THEN "exited"
    ELSE "menu"

LaunchEntry(at, readOk, key, r, to) ==
    [at |-> at, readOk |-> readOk, key |-> key, res |-> r, to |-> to]

LaunchInit ==
    /\ where = "menu"
    /\ res = "none"
    /\ launchLog = <<>>

\* One pass of launcher's while loop.
LauncherFrame ==
    /\ where = "menu"
    /\ Len(launchLog) < MaxLaunchFrames
    /\ \E readOk \in BOOLEAN, key \in Keys :
         LET to == AfterMenu(readOk, key)
         IN  /\ where' = to
             /\ res' = res
             /\ launchLog' = Append(launchLog, LaunchEntry("menu", readOk, key, "none", to))
    /\ UNCHANGED <<repVars, paintVars, clsVars>>

\* One pass of a demo's while loop, and the launcher's test of the result
\* when the demo returns.
DemoFrame(demo, r, readOk, key) ==
    /\ where' = AfterDemo(demo, r)
    /\ res' = (IF r \in {"back", "quit"} THEN r ELSE res)
    /\ launchLog' = Append(launchLog, LaunchEntry(demo, readOk, key, r, AfterDemo(demo, r)))

RunVirtualMouseFrame ==
    /\ where = "mouse"
    /\ Len(launchLog) < MaxLaunchFrames
    /\ \E readOk \in BOOLEAN, key \in Keys :
         DemoFrame("mouse", MouseFrameResult(readOk, key), readOk, key)
    /\ UNCHANGED <<repVars, paintVars, clsVars>>

RunVirtualPainterFrame ==
    /\ where = "painter"
    /\ Len(launchLog) < MaxLaunchFrames
    /\ \E readOk \in BOOLEAN, key \in Keys :
         DemoFrame("painter", PainterFrameResult(readOk, key), readOk, key)
    /\ UNCHANGED <<repVars, paintVars, clsVars>>

RunTrainerFrame ==
    /\ where = "trainer"
    /\ Len(launchLog) < MaxLaunchFrames
    /\ \E readOk \in BOOLEAN, key \in Keys :
         DemoFrame("trainer", TrainerFrameResult(readOk, key), readOk, key)
    /\ UNCHANGED <<repVars, paintVars, clsVars>>

(***************************************************************************)
(* Specifications.                                                         *)
(***************************************************************************)

PaintIdle == PaintInit({RequestedWidth})

\* The trainer session.
InitRep == RepInit /\ PaintIdle /\ ClsIdle /\ LaunchInit
NextRep == FindAngle \/ FindAngleEmpty \/ TrainerSkip
SpecRep == InitRep /\ [][NextRep]_vars

\* The painter session, strokes and modes.
InitPaint == RepInit /\ PaintInit({RequestedWidth}) /\ ClsIdle /\ LaunchInit
NextPaint == PaintHandFrame \/ PaintNoHandFrame
SpecPaint == InitPaint /\ [][NextPaint]_vars

\* The painter session, every finger vector.
InitMode == RepInit /\ PaintInit({RequestedWidth}) /\ ClsIdle /\ LaunchInit
NextMode == ModeHandFrame \/ ModeNoHandFrame
SpecMode == InitMode /\ [][NextMode]_vars

\* The painter session, tool selection over the header.
InitSel == RepInit /\ PaintInit(Widths) /\ ClsIdle /\ LaunchInit
NextSel == SelHandFrame \/ SelNoHandFrame
SpecSel == InitSel /\ [][NextSel]_vars

\* The classifiers on one landmark list.
InitCls == RepInit /\ PaintIdle /\ ClsInit /\ LaunchInit
NextCls == ClassifyMain \/ ClassifyMouse \/ ClassifyPainter
SpecCls == InitCls /\ [][NextCls]_vars

\* The launcher session: the menu and the demos' exits.
InitLaunch == RepInit /\ PaintIdle /\ ClsIdle /\ LaunchInit
NextLaunch ==
    LauncherFrame \/ RunVirtualMouseFrame \/ RunVirtualPainterFrame \/ RunTrainerFrame
SpecLaunch == InitLaunch /\ [][NextLaunch]_vars

\* The launcher and its demos side by side; the properties are stated over
\* the component specifications above.
Init == RepInit /\ PaintInit(Widths) /\ ClsInit /\ LaunchInit
Next == NextRep \/ NextPaint \/ NextCls \/ NextLaunch
Spec == Init /\ [][Next]_vars

(***************************************************************************)
(* Properties of the rep counter (SpecRep).                                *)
(***************************************************************************)

\* The counter state a frame started from.
RepBefore(i) ==
    IF i = 1 THEN [dir |-> 0, count |-> 0]
    ELSE [dir |-> repLog[i - 1].dir, count |-> repLog[i - 1].count]

IsPose(i)    == repLog[i].kind = "pose"
RepAngle(i)  == NormalizeAngle(repLog[i].raw)
Incremented(i) == repLog[i].count # RepBefore(i).count
DownFrame(i) == IsPose(i) /\ RepAngle(i) > 160

RepLogIsState ==
    /\ curl_count = (IF repLog = <<>> THEN 0 ELSE Last(repLog).count)
    /\ dir = (IF repLog = <<>> THEN 0 ELSE Last(repLog).dir)

PoseRaws == [i \in DOMAIN repLog |-> IF IsPose(i) THEN repLog[i].raw ELSE 999]
RepCounts == [i \in DOMAIN repLog |-> repLog[i].count]

\* C2: an angle update adds exactly one half rep (1 in the model's unit) iff
\* its normalized angle is < 30 and the direction flag was Down (0) when the
\* update started; every other update leaves the count alone, so the count
\* never decreases; and the angles 170, 90, 20, 90, 170 from count 0 and
\* direction Down give one increment, at the 20, and a final count of 0.5.
C2_HalfStepIffBelow30FromDown ==
    /\ RepLogIsState
    /\ \A i \in DOMAIN repLog :
         /\ IsPose(i) =>
              IF RepAngle(i) < 30 /\ RepBefore(i).dir = 0
              THEN repLog[i].count = RepBefore(i).count + 1
              ELSE repLog[i].count = RepBefore(i).count
         /\ repLog[i].count >= RepBefore(i).count
    /\ PoseRaws = <<170, 90, 20, 90, 170>> =>
         /\ RepCounts = <<0, 0, 1, 1, 1>>
         /\ curl_count = 1

C2_Witness ==
    /\ PoseRaws = <<170, 90, 20, 90, 170>>
    /\ curl_count = 1

\* The last increment strictly before frame i, 0 if there is none.
PrevIncrement(i) ==
    LET earlier == {j \in 1..(i - 1) : Incremented(j)}
    IN  IF earlier = {} THEN 0
        ELSE CHOOSE j \in earlier : \A k \in earlier : k <= j

\* C3 as stated: every increment is preceded by a frame with angle > 160 that
\* came after the previous increment or, for the first one, after the start.
C3_EveryIncrementAfterDownFrame ==
    \A i \in DOMAIN repLog :
        Incremented(i) =>
            \E j \in (PrevIncrement(i) + 1)..(i - 1) : DownFrame(j)

\* C3 as the code has it: the direction flag starts Down, so the first
\* increment needs no earlier frame with angle > 160 (the first pose frame
\* with angle < 30 increments); every later increment is preceded by a frame
\* with angle > 160 that came after the previous increment, so a run of
\* frames with angle < 30 increments at most once.
C3_LaterIncrementsAfterDownFrame ==
    \A i \in DOMAIN repLog :
        /\ Incremented(i) /\ PrevIncrement(i) # 0 =>
              \E j \in (PrevIncrement(i) + 1)..(i - 1) : DownFrame(j)
        /\ IsPose(i) /\ RepAngle(i) < 30 /\ PrevIncrement(i) = 0 => Incremented(i)
        /\ i > 1 /\ Incremented(i - 1) /\ IsPose(i) /\ RepAngle(i) < 30 =>
              ~Incremented(i)

C3_Witness ==
    /\ curl_count = 2
    /\ \E i \in DOMAIN repLog : i > 1 /\ Incremented(i - 1) /\ IsPose(i) /\ RepAngle(i) < 30

\* The counter state after the pose frames of a log alone.
RECURSIVE ReplayPoses(_, _, _)
ReplayPoses(log, d, c) ==
    IF log = <<>> THEN [dir |-> d, count |-> c]
    ELSE IF Head(log).kind = "pose"
    THEN LET r == RepUpdate(d, c, NormalizeAngle(Head(log).raw))
         IN  ReplayPoses(Tail(log), r.dir, r.count)
    ELSE ReplayPoses(Tail(log), d, c)

\* C10: a frame without a detected pose (findAngle on an empty landmark list,
\* or the trainer loop skipping the call) keeps the direction flag and the
\* count, so the state after any frame sequence is the state its pose frames
\* alone produce.
C10_NoPoseFrameKeepsCounter ==
    /\ RepLogIsState
    /\ \A i \in DOMAIN repLog :
         ~IsPose(i) =>
            /\ repLog[i].dir = RepBefore(i).dir
            /\ repLog[i].count = RepBefore(i).count
    /\ LET r == ReplayPoses(repLog, 0, 0)
       IN  dir = r.dir /\ curl_count = r.count

C10_Witness ==
    \E i, j, k \in DOMAIN repLog :
        /\ i < j /\ j < k
        /\ Incremented(i)
        /\ repLog[j].kind \in {"empty", "skip"}
        /\ IsPose(k) /\ RepAngle(k) < 30 /\ ~Incremented(k)

(***************************************************************************)
(* Properties of the painter loop (SpecPaint, SpecMode, SpecSel).          *)
(***************************************************************************)

\* The painter state a frame started from.
PaintBefore(i) ==
    IF i = 1 THEN [xy |-> <<0, 0>>, canvas |-> <<>>, color |-> colors[1]]
    ELSE [xy |-> hist[i - 1].xy, canvas |-> hist[i - 1].canvas,
          color |-> hist[i - 1].color]

PaintLogIsState ==
    hist # <<>> =>
        /\ <<xp, yp>> = Last(hist).xy
        /\ imgCanvas = Last(hist).canvas
        /\ current_color = Last(hist).color

IsDraw(i)   == hist[i].kind = "Draw"
IsLift(i)   == hist[i].kind \in {"Navigate", "Idle"}
IsNoHand(i) == hist[i].kind = "NoHand"
Unset       == <<0, 0>>

\* The line calls frame i made on the canvas.
Added(i) == SubSeq(hist[i].canvas, Len(PaintBefore(i).canvas) + 1, Len(hist[i].canvas))
Segment(l) == <<l.from, l.to>>
Segments(ls) == [k \in DOMAIN ls |-> Segment(ls[k])]

\* C1 as stated: a Draw frame that starts with the cursor unset only sets the
\* cursor and draws nothing, so Draw(a), Draw(b) from unset makes exactly one
\* line call, a -> b.
C1_FirstDrawFrameDrawsNothing ==
    \A i \in DOMAIN hist :
        IsDraw(i) /\ PaintBefore(i).xy = Unset =>
            /\ hist[i].xy = hist[i].at
            /\ Added(i) = <<>>
            /\ i < Len(hist) /\ IsDraw(i + 1) =>
                  Segments(Added(i + 1)) = << <<hist[i].at, hist[i + 1].at>> >>

\* C1 as the code has it: every Draw frame makes exactly one line call and
\* moves the cursor to the index tip; the line starts at the index tip itself
\* when the cursor was unset (a dot) and at the cursor otherwise.  So
\* Draw(a), Draw(b) from unset, a # (0,0), makes the two calls a -> a and
\* a -> b, and no line starts at (0,0) and ends elsewhere.
C1_FirstDrawFrameDrawsDot ==
    /\ PaintLogIsState
    /\ \A i \in DOMAIN hist :
         IsDraw(i) =>
            /\ hist[i].xy = hist[i].at
            /\ hist[i].canvas =
                  Append(PaintBefore(i).canvas,
                         LineCall(IF PaintBefore(i).xy = Unset THEN hist[i].at
                                  ELSE PaintBefore(i).xy,
                                  hist[i].at, PaintBefore(i).color))
            /\ (/\ PaintBefore(i).xy = Unset
                /\ hist[i].at # Unset
                /\ i < Len(hist)
                /\ IsDraw(i + 1)) =>
                  Segments(Added(i) \o Added(i + 1)) =
                     << <<hist[i].at, hist[i].at>>, <<hist[i].at, hist[i + 1].at>> >>
    /\ \A k \in DOMAIN imgCanvas :
         imgCanvas[k].from = Unset => imgCanvas[k].to = Unset

C1_Witness ==
    \E i \in DOMAIN hist :
        /\ i < Len(hist)
        /\ IsDraw(i) /\ IsDraw(i + 1)
        /\ PaintBefore(i).xy = Unset
        /\ hist[i].at # Unset
        /\ hist[i + 1].at # hist[i].at
        /\ Len(hist[i + 1].canvas) = Len(PaintBefore(i).canvas) + 2

\* C4: a frame with a hand whose mode is Navigate or Idle leaves the canvas
\* as it was and leaves the cursor unset; so in Draw(a), one or more such
\* frames, Draw(b), the second Draw frame adds only a line from b to b: no
\* line joins a position from before the lift to b.
C4_PenLift ==
    /\ PaintLogIsState
    /\ \A i \in DOMAIN hist :
         IsLift(i) =>
            /\ hist[i].canvas = PaintBefore(i).canvas
            /\ hist[i].xy = Unset
    /\ \A i, k \in DOMAIN hist :
         (/\ i + 1 < k
          /\ IsDraw(i) /\ IsDraw(k)
          /\ \A j \in (i + 1)..(k - 1) : IsLift(j)) =>
            Segments(Added(k)) = << <<hist[k].at, hist[k].at>> >>

C4_Witness ==
    \E i \in DOMAIN hist :
        /\ i + 2 <= Len(hist)
        /\ IsDraw(i) /\ IsLift(i + 1) /\ IsDraw(i + 2)
        /\ hist[i].at # Unset
        /\ hist[i + 2].at # hist[i].at

\* C5: a frame without a hand counts as not drawing: the cursor is unset
\* when the next frame starts, so Draw(a), NoHand, Draw(b) draws no line
\* from a to b.
C5_NoHandFrameLiftsPen ==
    \A i \in DOMAIN hist :
        (i > 1 /\ i < Len(hist) /\ IsDraw(i - 1) /\ IsNoHand(i) /\ IsDraw(i + 1)) =>
            /\ hist[i].xy = Unset
            /\ \A k \in DOMAIN Added(i + 1) :
                 Added(i + 1)[k].from = hist[i - 1].at =>
                    hist[i - 1].at = hist[i + 1].at

RegionIndex(x, width) == x \div (width \div num_buttons)

ClampIndex(k) ==
    IF k < 0 THEN 0 ELSE IF k > num_buttons - 1 THEN num_buttons - 1 ELSE k

InHeader(i) == hist[i].kind = "Navigate" /\ hist[i].at[2] < header_height

\* C9 as stated: every Navigate frame with the cursor in the header band
\* selects the palette entry at floor(x / regionWidth) clamped into
\* [0, buttonCount - 1]; no other frame changes the tool.
C9_SelectsClampedRegion ==
    \A i \in DOMAIN hist :
        IF InHeader(i)
        THEN hist[i].color = colors[ClampIndex(RegionIndex(hist[i].at[1], w)) + 1]
        ELSE hist[i].color = PaintBefore(i).color

\* C9 as the code has it: a Navigate frame with the cursor in the header band
\* selects the palette entry at floor(x / regionWidth) when that index lies
\* in [0, buttonCount - 1], and selects nothing when it does not (x < 0, or
\* x at or right of buttonCount * regionWidth); no other frame changes the
\* tool.
C9_SelectsRegionInRangeOnly ==
    /\ PaintLogIsState
    /\ \A i \in DOMAIN hist :
         LET k == RegionIndex(hist[i].at[1], w)
         IN  IF InHeader(i) /\ 0 <= k /\ k <= num_buttons - 1
             THEN hist[i].color = colors[k + 1]
             ELSE hist[i].color = PaintBefore(i).color

C9_Witness ==
    /\ w = 1283
    /\ Len(hist) = 2
    /\ InHeader(1) /\ hist[1].color = colors[2]
    /\ InHeader(2) /\ hist[2].at[1] = 1281 /\ hist[2].color = colors[2]

(***************************************************************************)
(* Properties of the finger classifiers (SpecCls).                         *)
(***************************************************************************)

CompleteHand == Len(lmIn) = 21 /\ \A k \in 1..21 : lmIn[k][1] = k - 1

\* Landmark id of a complete hand, read off the list itself.
LmX(id) == lmIn[id + 1][2]
LmY(id) == lmIn[id + 1][3]

TipOf(k) == 4 * k

\* The reference rule of C7.
ReferenceVector ==
    [k \in FingerIx |->
        IF k = 1
        THEN Bit(\/ handIn = "Right" /\ LmX(4) < LmX(3)
                 \/ handIn # "Right" /\ LmX(4) > LmX(3))
        ELSE Bit(LmY(TipOf(k)) < LmY(TipOf(k) - 2))]

\* C7: on a complete 21-landmark hand, for each handedness, VirtualMouse's
\* countFingers and VirtualPainter's fingersUpFromLm return the vector of the
\* reference rule (thumb by x and handedness, the other four by tip.y < y of
\* landmark tip - 2, equality giving 0), and countFingers' total is the sum
\* of the bits, between 0 and 5.
C7_ClassifiersFollowReferenceRule ==
    CompleteHand =>
        /\ clsOut.mouse.ran =>
              /\ ~clsOut.mouse.raised
              /\ clsOut.mouse.fingers = ReferenceVector
              /\ clsOut.mouse.total = SumSeq(ReferenceVector)
              /\ clsOut.mouse.total \in 0..5
        /\ clsOut.painter.ran =>
              /\ ~clsOut.painter.raised
              /\ clsOut.painter.fingers = ReferenceVector

C7_Witness ==
    /\ CompleteHand
    /\ clsOut.mouse.ran /\ clsOut.painter.ran
    /\ handIn = "Right"
    /\ LmX(4) < LmX(3)
    /\ LmY(12) = LmY(10)
    /\ clsOut.painter.fingers = <<1, 1, 0, 1, 0>>
    /\ clsOut.mouse.total = 3

\* The fingers whose tip or reference joint is not in the list.
MissingFingers ==
    {k \in FingerIx :
        LET tip == IF k = 1 THEN 4 ELSE TipOf(k)
            ref == IF k = 1 THEN 3 ELSE TipOf(k) - 2
        IN  tip \notin LmIds(lmIn) \/ ref \notin LmIds(lmIn)}

DegradesToDown(out) ==
    out.ran =>
        /\ ~out.raised
        /\ Len(out.fingers) = 5
        /\ \A k \in MissingFingers : out.fingers[k] = 0

\* C8: on a non-empty landmark list from which any of the ids 3, 4, 6, 8, 10,
\* 12, 14, 16, 18, 20 are missing, each of the three classifiers returns a
\* 5-element vector with 0 for every finger whose tip or reference joint is
\* missing, and none raises.
C8_MissingIdsDegradeToDown ==
    lmIn # <<>> =>
        /\ DegradesToDown(clsOut.main)
        /\ DegradesToDown(clsOut.mouse)
        /\ DegradesToDown(clsOut.painter)

(***************************************************************************)
(* Properties of the launcher (SpecLaunch).                                *)
(***************************************************************************)

Demos == {"mouse", "painter", "trainer"}

\* C11: in each of the three demos a frame on which 'q' is pressed makes the
\* demo return 'quit' and the launcher end without another menu frame; the
\* launcher goes back to the menu from a demo only when it returned 'back'.
C11_QuitInDemoEndsLauncher ==
    \A i \in DOMAIN launchLog :
        LET e == launchLog[i]
        IN  /\ (e.at \in Demos /\ e.readOk /\ e.key = "q") =>
                  /\ e.res = "quit"
                  /\ e.to = "exited"
                  /\ \A j \in DOMAIN launchLog : j > i => launchLog[j].at # "menu"
            /\ (e.at \in Demos /\ e.to = "menu") => e.res = "back"

====
